---- MODULE Spec2Model ----
(***************************************************************************)
(* CHIP-8 interpreter (src/main.rs, src/utils.rs): the Machine struct, the *)
(* opcode decoder parse_opcode, the operations init, load_program,         *)
(* fetch_opcode, set_key_state and exec_single, and the loop of main       *)
(* (events, one exec_single, timer section).                               *)
(*                                                                         *)
(* A Rust panic (index out of bounds, unwrap on None, arithmetic overflow  *)
(* in a build with overflow checks) aborts the process: it is recorded in  *)
(* the variable panicked, after which no operation is enabled.             *)
(***************************************************************************)
EXTENDS Integers, Sequences, FiniteSets, TLC

\* ---------------------------------------------------------------- constants
GFX_WIDTH == 64
GFX_HEIGHT == 32
PROGRAM_START_ADDRESS == 512
MEMORY_SIZE == 4096
U16_MAX == 65535

\* ------------------------------------------------------------------- bounds
\* longest program (in 16-bit words) the general specification loads
MaxProgWords == 3
\* the model stops following Call once the stack holds this many addresses
StackCap == 17
\* the load specification loads programs of 0 .. LoadSpan bytes and of up to
\* LoadSpan bytes less or more than the room left above 0x200
LoadSpan == 2
\* the arithmetic specification sets registers to 0 .. AluSpan, to
\* 255 - AluSpan .. 255 and to a few values in between
AluSpan == 2
\* the largest value the driver programs set the timers to
TimerSpan == 5
\* the memory programs set I to the last 1 + MemSpan addresses of memory (and
\* to two addresses far from the end)
MemSpan == 2

\* ------------------------------------------------------ integer bit operators
RECURSIVE BitAnd(_, _)
BitAnd(a, b) ==
    IF a = 0 \/ b = 0 THEN 0
    ELSE (a % 2) * (b % 2) + 2 * BitAnd(a \div 2, b \div 2)

RECURSIVE BitOr(_, _)
BitOr(a, b) ==
    IF a = 0 THEN b
    ELSE IF b = 0 THEN a
    ELSE (IF a % 2 = 1 \/ b % 2 = 1 THEN 1 ELSE 0) + 2 * BitOr(a \div 2, b \div 2)

RECURSIVE BitXor(_, _)
BitXor(a, b) ==
    IF a = 0 THEN b
    ELSE IF b = 0 THEN a
    ELSE ((a + b) % 2) + 2 * BitXor(a \div 2, b \div 2)

\* v >> n and v << n on a u16 (bits shifted out of the 16-bit word are lost)
Shr(v, n) == v \div (2 ^ n)
Shl16(v, n) == (v * (2 ^ n)) % (U16_MAX + 1)

\* Option<u16>
None == << >>
Some(v) == << v >>
unwrap(o) == o[1]

\* ------------------------------------------------------------------ decoder
\* a value of enum OpCode: the variant and its fields (0 where unused)
Op(tag, x, y, n) == [tag |-> tag, x |-> x, y |-> y, n |-> n]
Invalid == Op("Invalid", 0, 0, 0)

extract_x(opcode) == Shr(BitAnd(opcode, 3840), 8)
\* mutant: the Y nibble is shifted like the X nibble
extract_y_shifted_by_8(opcode) == Shr(BitAnd(opcode, 240), 8)

extract_y(opcode) == Shr(BitAnd(opcode, 240), 4)

parse_f(opcode, selector) ==
    LET sub_group == Shr(BitAnd(opcode, 240), 4)
        X == extract_x(opcode)
    IN  CASE sub_group = 0 /\ selector = 7  -> Op("TimerX", X, 0, 0)
          [] sub_group = 0 /\ selector = 10 -> Op("KeyPressX", X, 0, 0)
          [] sub_group = 1 /\ selector = 5  -> Op("SetDelayTimer", X, 0, 0)
          [] sub_group = 1 /\ selector = 8  -> Op("SetSoundTimer", X, 0, 0)
          [] sub_group = 1 /\ selector = 14 -> Op("MemAdd", X, 0, 0)
          [] sub_group = 2 /\ selector = 9  -> Op("SpriteX", X, 0, 0)
          [] sub_group = 3 /\ selector = 3  -> Op("BCD", X, 0, 0)
          [] sub_group = 5 /\ selector = 5  -> Op("DumpX", X, 0, 0)
          [] sub_group = 6 /\ selector = 5  -> Op("LoadX", X, 0, 0)
          [] OTHER -> Invalid

parse_opcode(op) ==
    IF op = None THEN Invalid
    ELSE
    LET opcode == unwrap(op)
        class == Shr(BitAnd(opcode, 61440), 12)
        selector == BitAnd(opcode, 15)
        X == extract_x(opcode)
        Y == extract_y(opcode)
    IN  IF opcode = 224 THEN Op("Clear", 0, 0, 0)
        ELSE IF opcode = 238 THEN Op("Return", 0, 0, 0)
        ELSE
        CASE class = 1 -> Op("JumpTo", 0, 0, BitAnd(opcode, 4095))
          [] class = 2 -> Op("Call", 0, 0, BitAnd(opcode, 4095))
          [] class = 3 -> Op("SkipEq", X, 0, BitAnd(opcode, 255))
          [] class = 4 -> Op("SkipNotEq", X, 0, BitAnd(opcode, 255))
          [] class = 5 /\ selector = 0 -> Op("SkipEqXY", X, Y, 0)
          [] class = 6 -> Op("SetX", X, 0, BitAnd(opcode, 255))
          [] class = 7 -> Op("AddX", X, 0, BitAnd(opcode, 255))
          [] class = 8 /\ selector = 0 -> Op("AssignXY", X, Y, 0)
          [] class = 8 /\ selector = 1 -> Op("OrXY", X, Y, 0)
          [] class = 8 /\ selector = 2 -> Op("AndXY", X, Y, 0)
          [] class = 8 /\ selector = 3 -> Op("XorXY", X, Y, 0)
          [] class = 8 /\ selector = 4 -> Op("AddXY", X, Y, 0)
          [] class = 8 /\ selector = 5 -> Op("SubXY", X, Y, 0)
          [] class = 8 /\ selector = 6 -> Op("ShiftRightX1", X, 0, 0)
          [] class = 8 /\ selector = 7 -> Op("SubYX", X, Y, 0)
          [] class = 8 /\ selector = 14 -> Op("ShiftLeftX1", X, 0, 0)
          [] class = 9 /\ selector = 0 -> Op("SkipNotEqXY", X, Y, 0)
          [] class = 10 -> Op("SetIR", 0, 0, BitAnd(opcode, 4095))
          [] class = 11 -> Op("Flow", 0, 0, BitAnd(opcode, 4095))
          [] class = 12 -> Op("RandX", X, 0, BitAnd(opcode, 255))
          [] class = 13 -> Op("Draw", X, Y, BitAnd(opcode, 15))
          [] class = 14 /\ selector = 9 -> Op("KeyPressedX", X, 0, 0)
          [] class = 14 /\ selector = 1 -> Op("KeyNotPressedX", X, 0, 0)
          [] class = 15 -> parse_f(opcode, selector)
          [] OTHER -> Invalid

\* ------------------------------------------------------------- machine state
VARIABLES
    memory,          \* [u8; 4096], as the function on the addresses of its
                     \* nonzero bytes (every other byte is 0)
    registers,       \* [u16; 16]
    index_register,  \* u16
    pc,              \* usize
    gfx,             \* [u8; GFX_WIDTH * GFX_HEIGHT], as the set of the
                     \* positions that hold 1 (every other pixel is 0)
    delay_timer,     \* u16
    sound_timer,     \* u16
    stack,           \* Vec<usize>, the last element is the top
    opcode,          \* u16, the word fetch_opcode read last
    program_size,    \* usize
    keys,            \* HashMap<u16, u8>: a function on the keys inserted so far
    draw_flag,       \* bool
    panicked,        \* the process was aborted by a panic
    alive,           \* the value the last exec_single returned
    fetched,         \* the Option<u16> the last fetch_opcode returned
    decoded,         \* the OpCode the last parse_opcode returned
    last_op,         \* the operation that ran last
    program,         \* the Vec<u8> given to the last load_program
    hist             \* what the last two exec_single calls started from

machine == << memory, registers, index_register, pc, gfx, delay_timer,
              sound_timer, stack, opcode, program_size, keys, draw_flag >>
vars == << memory, registers, index_register, pc, gfx, delay_timer,
           sound_timer, stack, opcode, program_size, keys, draw_flag,
           panicked, alive, fetched, decoded, last_op, program, hist >>

Addresses == 0 .. (MEMORY_SIZE - 1)
Pixels == 0 .. (GFX_WIDTH * GFX_HEIGHT - 1)
RegisterIds == 0 .. 15

\* memory[a] and gfx[p] of the arrays the two variables stand for
mem_read(m, a) == IF a \in DOMAIN m THEN m[a] ELSE 0
pixel(g, p) == IF p \in g THEN 1 ELSE 0

\* the array m after memory[a] = val[a] for every address a of DOMAIN val
mem_write(m, val) ==
    LET byte(a) == IF a \in DOMAIN val THEN val[a] ELSE m[a]
    IN  [a \in { x \in (DOMAIN m) \cup (DOMAIN val) : byte(x) # 0 } |-> byte(a)]

\* the Machine as one value
self ==
    [ memory |-> memory, registers |-> registers,
      index_register |-> index_register, pc |-> pc, gfx |-> gfx,
      delay_timer |-> delay_timer, sound_timer |-> sound_timer,
      stack |-> stack, opcode |-> opcode, program_size |-> program_size,
      keys |-> keys, draw_flag |-> draw_flag, panicked |-> FALSE ]

\* Machine::new()
new ==
    [ memory |-> << >>,
      registers |-> [r \in RegisterIds |-> 0],
      index_register |-> 0,
      pc |-> 0,
      gfx |-> {},
      delay_timer |-> U16_MAX,
      sound_timer |-> U16_MAX,
      stack |-> << >>,
      opcode |-> 0,
      program_size |-> 0,
      keys |-> << >>,
      draw_flag |-> FALSE,
      panicked |-> FALSE ]

codes ==
    << << 240, 144, 144, 144, 240 >>,   \* 0
       << 32, 96, 32, 32, 112 >>,       \* 1
       << 240, 16, 240, 128, 240 >>,    \* 2
       << 240, 16, 240, 16, 240 >>,     \* 3
       << 144, 144, 240, 16, 16 >>,     \* 4
       << 240, 128, 240, 16, 240 >>,    \* 5
       << 240, 128, 240, 144, 240 >>,   \* 6
       << 240, 16, 32, 64, 64 >>,       \* 7
       << 240, 144, 240, 144, 240 >>,   \* 8
       << 240, 144, 240, 16, 240 >>,    \* 9
       << 240, 144, 240, 144, 144 >>,   \* A
       << 224, 144, 224, 144, 224 >>,   \* B
       << 240, 128, 128, 128, 240 >>,   \* C
       << 224, 144, 144, 144, 224 >>,   \* D
       << 240, 128, 240, 128, 240 >>,   \* E
       << 240, 128, 240, 128, 128 >> >> \* F

\* load_fontset: glyph g, byte b goes to memory[5 * g + b]
load_fontset(s) ==
    [s EXCEPT !.memory =
        mem_write(@, [a \in 0 .. (5 * Len(codes) - 1) |->
                        codes[(a \div 5) + 1][(a % 5) + 1]])]

\* the state init() leaves
init_state == load_fontset([new EXCEPT !.pc = PROGRAM_START_ADDRESS])

\* mutant: the copy loop stops one byte early
load_program_state_one_short(s, p) ==
    [s EXCEPT
           !.memory = mem_write(@, [a \in PROGRAM_START_ADDRESS ..
                                          (PROGRAM_START_ADDRESS + Len(p) - 2) |->
                                      p[a - PROGRAM_START_ADDRESS + 1]]),
           !.program_size = Len(p),
           !.panicked = Len(p) > MEMORY_SIZE - PROGRAM_START_ADDRESS]

\* load_program: the loop writes p[i] to memory[0x200 + i] and panics at the
\* first index outside the array, before program_size is assigned
load_program_state(s, p) ==
    LET room == MEMORY_SIZE - PROGRAM_START_ADDRESS
        written == IF Len(p) <= room THEN Len(p) ELSE room
    IN  [s EXCEPT
           !.memory = mem_write(@, [a \in PROGRAM_START_ADDRESS ..
                                          (PROGRAM_START_ADDRESS + written - 1) |->
                                      p[a - PROGRAM_START_ADDRESS + 1]]),
           !.program_size = IF Len(p) <= room THEN Len(p) ELSE @,
           !.panicked = Len(p) > room]

\* fetch_opcode: None past the program, a panic when pc or pc + 1 is outside
\* the memory array, else the big-endian word at pc
fetch_panics(s) ==
    /\ ~(s.pc > PROGRAM_START_ADDRESS + s.program_size)
    /\ s.pc + 1 >= MEMORY_SIZE

fetch_opcode(s) ==
    IF s.pc > PROGRAM_START_ADDRESS + s.program_size THEN None
    ELSE Some(BitOr(Shl16(mem_read(s.memory, s.pc), 8),
                    mem_read(s.memory, s.pc + 1)))

\* ------------------------------------------------- exec_single, arm by arm
\* u16 arithmetic: a build with overflow checks panics on overflow, a build
\* without them wraps; wrap says which of the two this step does
Overflow(v) == v > U16_MAX \/ v < 0
Wrap16(v) == v % (U16_MAX + 1)
Panic(s) == [s EXCEPT !.panicked = TRUE]

pc_inc(s) == [s EXCEPT !.pc = @ + 2]

exec_Clear(s) ==
    pc_inc([s EXCEPT !.gfx = {}, !.draw_flag = TRUE])

exec_Return(s) ==
    IF s.stack = << >> THEN Panic(s)
    ELSE pc_inc([s EXCEPT !.pc = s.stack[Len(s.stack)],
                          !.stack = SubSeq(s.stack, 1, Len(s.stack) - 1)])

exec_JumpTo(s, n) == [s EXCEPT !.pc = n]

\* mutant: Call pushes the address after the call instruction
exec_Call_pushes_next(s, n) == [s EXCEPT !.stack = Append(@, s.pc + 2), !.pc = n]

exec_Call(s, n) == [s EXCEPT !.stack = Append(@, s.pc), !.pc = n]

exec_SkipEq(s, r, n) ==
    pc_inc(IF s.registers[r] = n THEN pc_inc(s) ELSE s)

exec_SkipNotEq(s, r, n) ==
    pc_inc(IF s.registers[r] # n THEN pc_inc(s) ELSE s)

exec_SkipEqXY(s, rx, ry) ==
    pc_inc(IF s.registers[rx] = s.registers[ry] THEN pc_inc(s) ELSE s)

exec_SetX(s, r, n) == pc_inc([s EXCEPT !.registers[r] = n])

exec_AddX(s, r, n, wrap) ==
    LET sum == s.registers[r] + n
    IN  IF Overflow(sum) /\ ~wrap THEN Panic(s)
        ELSE pc_inc([s EXCEPT !.registers[r] = BitAnd(Wrap16(sum), 255)])

exec_AssignXY(s, rx, ry) ==
    pc_inc([s EXCEPT !.registers[rx] = s.registers[ry]])

exec_OrXY(s, rx, ry) ==
    pc_inc([s EXCEPT !.registers[rx] = BitOr(@, s.registers[ry])])

exec_AndXY(s, rx, ry) ==
    pc_inc([s EXCEPT !.registers[rx] = BitAnd(@, s.registers[ry])])

exec_XorXY(s, rx, ry) ==
    pc_inc([s EXCEPT !.registers[rx] = BitXor(@, s.registers[ry])])

\* mutant: the sum is masked before the carry test
exec_AddXY_masks_first(s, rx, ry, wrap) ==
    LET sum == s.registers[rx] + s.registers[ry]
        r1 == [s.registers EXCEPT ![rx] = BitAnd(Wrap16(sum), 255)]
        r2 == [r1 EXCEPT ![15] = IF r1[rx] > 255 THEN 1 ELSE 0]
    IN  IF Overflow(sum) /\ ~wrap THEN Panic(s)
        ELSE pc_inc([s EXCEPT !.registers = r2])

\* the three assignments run in the order of the code, so rx = 0xF is
\* overwritten by the flag and then masked
exec_AddXY(s, rx, ry, wrap) ==
    LET sum == s.registers[rx] + s.registers[ry]
        r1 == [s.registers EXCEPT ![rx] = Wrap16(sum)]
        r2 == [r1 EXCEPT ![15] = IF r1[rx] > 255 THEN 1 ELSE 0]
        r3 == [r2 EXCEPT ![rx] = BitAnd(@, 255)]
    IN  IF Overflow(sum) /\ ~wrap THEN Panic(s)
        ELSE pc_inc([s EXCEPT !.registers = r3])

\* mutant: a borrow clamps the result to 0
exec_SubXY_clamps(s, rx, ry, wrap) ==
    IF s.registers[rx] >= s.registers[ry]
    THEN LET r1 == [s.registers EXCEPT ![rx] = @ - s.registers[ry]]
         IN  pc_inc([s EXCEPT !.registers = [r1 EXCEPT ![15] = 1]])
    ELSE LET r1 == [s.registers EXCEPT ![rx] = 0]
         IN  pc_inc([s EXCEPT !.registers = [r1 EXCEPT ![15] = 0]])

exec_SubXY(s, rx, ry, wrap) ==
    IF s.registers[rx] >= s.registers[ry]
    THEN LET r1 == [s.registers EXCEPT ![rx] = @ - s.registers[ry]]
         IN  pc_inc([s EXCEPT !.registers = [r1 EXCEPT ![15] = 1]])
    ELSE LET diff == 256 - (s.registers[ry] - s.registers[rx])
             r1 == [s.registers EXCEPT ![rx] = Wrap16(diff)]
         IN  IF Overflow(diff) /\ ~wrap THEN Panic(s)
             ELSE pc_inc([s EXCEPT !.registers = [r1 EXCEPT ![15] = 0]])

exec_ShiftRightX1(s, r) ==
    LET v == s.registers[r]
        b == BitAnd(v, 1)
        r1 == [s.registers EXCEPT ![15] = b]
    IN  pc_inc([s EXCEPT !.registers = [r1 EXCEPT ![r] = BitAnd(Shr(v, 1), 255)]])

exec_SubYX(s, rx, ry) ==
    IF s.registers[ry] >= s.registers[rx]
    THEN LET r1 == [s.registers EXCEPT ![rx] = s.registers[ry] - @]
         IN  pc_inc([s EXCEPT !.registers = [r1 EXCEPT ![15] = 1]])
    ELSE LET r1 == [s.registers EXCEPT ![rx] = 0]
         IN  pc_inc([s EXCEPT !.registers = [r1 EXCEPT ![15] = 0]])

exec_ShiftLeftX1(s, r) ==
    LET v == s.registers[r]
        b == BitAnd(v, 128)
        r1 == [s.registers EXCEPT ![15] = b]
    IN  pc_inc([s EXCEPT !.registers = [r1 EXCEPT ![r] = BitAnd(Shl16(v, 1), 255)]])

\* the taken branch adds 1 to the opcode field, not 2 to pc
exec_SkipNotEqXY(s, rx, ry) ==
    pc_inc(IF s.registers[rx] # s.registers[ry]
           THEN [s EXCEPT !.opcode = @ + 1] ELSE s)

exec_SetIR(s, n) == pc_inc([s EXCEPT !.index_register = n])

exec_Flow(s, n, wrap) ==
    LET sum == s.registers[0] + n
    IN  IF Overflow(sum) /\ ~wrap THEN Panic(s)
        ELSE [s EXCEPT !.pc = Wrap16(sum)]

\* rnd is the u16 the random generator returns
exec_RandX(s, r, n, rnd) == pc_inc([s EXCEPT !.registers[r] = BitAnd(rnd, n)])

exec_KeyPressedX(s, r) ==
    LET k == s.registers[r]
    IN  pc_inc(IF k \in DOMAIN s.keys /\ s.keys[k] > 0 THEN pc_inc(s) ELSE s)

exec_KeyNotPressedX(s, r) ==
    LET k == s.registers[r]
    IN  pc_inc(IF k \in DOMAIN s.keys
               THEN (IF s.keys[k] = 0 THEN pc_inc(s) ELSE s)
               ELSE pc_inc(s))

\* the keys of the map whose value is > 0
pressed_keys(s) == { k \in DOMAIN s.keys : s.keys[k] > 0 }

\* mutant: without a pressed key the instruction is passed over
exec_KeyPressX_no_wait(s, r, last) ==
    IF pressed_keys(s) = {} THEN pc_inc(s)
    ELSE [s EXCEPT !.registers[r] = last,
                   !.pc = @ + 2 * Cardinality(pressed_keys(s))]

\* the loop visits the map in an order the HashMap chooses: every pressed key
\* assigns the register and adds 2 to pc; last is the pressed key visited last
exec_KeyPressX(s, r, last) ==
    IF pressed_keys(s) = {} THEN s
    ELSE [s EXCEPT !.registers[r] = last,
                   !.pc = @ + 2 * Cardinality(pressed_keys(s))]

exec_TimerX(s, r) == pc_inc([s EXCEPT !.registers[r] = s.delay_timer])

exec_SetDelayTimer(s, r) == pc_inc([s EXCEPT !.delay_timer = s.registers[r]])

exec_SetSoundTimer(s, r) == pc_inc([s EXCEPT !.sound_timer = s.registers[r]])

exec_MemAdd(s, r, wrap) ==
    LET sum == s.index_register + s.registers[r]
    IN  IF Overflow(sum) /\ ~wrap THEN Panic(s)
        ELSE pc_inc([s EXCEPT !.index_register = Wrap16(sum)])

exec_SpriteX(s, r, wrap) ==
    LET prod == s.registers[r] * 5
    IN  IF Overflow(prod) /\ ~wrap THEN Panic(s)
        ELSE pc_inc([s EXCEPT !.index_register = Wrap16(prod)])

\* the loop writes memory[I + i] for i = 0..r and panics at the first
\* location outside the array, keeping what it wrote before
exec_DumpX(s, r) ==
    LET I == s.index_register
        m1 == mem_write(s.memory, [a \in (I .. (I + r)) \cap Addresses |->
                                     BitAnd(s.registers[a - I], 255)])
    IN  IF I + r >= MEMORY_SIZE THEN Panic([s EXCEPT !.memory = m1])
        ELSE pc_inc([s EXCEPT !.memory = m1])

exec_LoadX(s, r) ==
    LET I == s.index_register
        r1 == [i \in RegisterIds |->
                 IF i <= r /\ I + i < MEMORY_SIZE
                 THEN mem_read(s.memory, I + i) ELSE s.registers[i]]
    IN  IF I + r >= MEMORY_SIZE THEN Panic([s EXCEPT !.registers = r1])
        ELSE pc_inc([s EXCEPT !.registers = r1])

\* utils::convert_to_bits: r[7 - x] is bit x of b
RECURSIVE to_bits_loop(_, _, _)
to_bits_loop(b, r, x) ==
    IF x = 8 THEN r
    ELSE to_bits_loop(Shr(b, 1), [r EXCEPT ![7 - x] = BitAnd(b, 1)], x + 1)

\* mutant: the bits come out lowest first
convert_to_bits_lsb_first(b) == [k \in 0 .. 7 |-> (b \div (2 ^ k)) % 2]

convert_to_bits(b) == to_bits_loop(b, [k \in 0 .. 7 |-> 0], 0)

\* utils::convert_to_bcd: the three low decimal digits of d
RECURSIVE to_bcd_loop(_, _, _)
to_bcd_loop(d, r, i) ==
    IF d > 0
    THEN LET q == d % 10
             r1 == [r EXCEPT ![i] = q]
         IN  IF i = 0 THEN r1 ELSE to_bcd_loop((d - q) \div 10, r1, i - 1)
    ELSE r

convert_to_bcd(d) == to_bcd_loop(d, [i \in 0 .. 2 |-> 0], 2)

\* mutant: the sprite bit is OR-ed onto the pixel
draw_pixel_or(s, bits_row, x, y, h, k) ==
    LET curr_x == (x + k) % GFX_WIDTH
        curr_y == (y + h) % GFX_HEIGHT
        pos_video == curr_y * GFX_WIDTH + curr_x
        pixel_video == pixel(s.gfx, pos_video)
        r1 == IF pixel_video = 1 /\ bits_row[k] = pixel_video
              THEN [s.registers EXCEPT ![15] = 1] ELSE s.registers
    IN  [s EXCEPT !.registers = r1,
                  !.gfx = IF BitOr(pixel_video, bits_row[k]) = 1
                          THEN @ \cup { pos_video } ELSE @ \ { pos_video }]

\* one sprite pixel: column k of row h
draw_pixel(s, bits_row, x, y, h, k) ==
    LET curr_x == (x + k) % GFX_WIDTH
        curr_y == (y + h) % GFX_HEIGHT
        pos_video == curr_y * GFX_WIDTH + curr_x
        pixel_video == pixel(s.gfx, pos_video)
        r1 == IF pixel_video = 1 /\ bits_row[k] = pixel_video
              THEN [s.registers EXCEPT ![15] = 1] ELSE s.registers
    IN  [s EXCEPT !.registers = r1,
                  !.gfx = IF BitXor(pixel_video, bits_row[k]) = 1
                          THEN @ \cup { pos_video } ELSE @ \ { pos_video }]

RECURSIVE draw_row(_, _, _, _, _, _)
draw_row(s, bits_row, x, y, h, k) ==
    IF k = 8 THEN s
    ELSE draw_row(draw_pixel(s, bits_row, x, y, h, k), bits_row, x, y, h, k + 1)

\* rows h .. n-1 of the sprite; the u16 sum I + h can overflow and the read of
\* memory can be out of bounds, both after earlier rows were drawn
RECURSIVE draw_rows(_, _, _, _, _, _)
draw_rows(s, x, y, n, h, wrap) ==
    IF h >= n THEN pc_inc(s)
    ELSE LET sum == s.index_register + h
         IN  IF Overflow(sum) /\ ~wrap THEN Panic(s)
             ELSE IF Wrap16(sum) >= MEMORY_SIZE THEN Panic(s)
             ELSE draw_rows(
                    draw_row(s, convert_to_bits(mem_read(s.memory, Wrap16(sum))),
                             x, y, h, 0),
                    x, y, n, h + 1, wrap)

exec_Draw(s, rx, ry, n, wrap) ==
    LET x == s.registers[rx]
        y == s.registers[ry]
    IN  draw_rows([s EXCEPT !.draw_flag = TRUE, !.registers[15] = 0],
                  x, y, n, 0, wrap)

\* three writes, each one bounds-checked after the previous one was done
exec_BCD(s, r) ==
    LET ds == convert_to_bcd(s.registers[r])
        I == s.index_register
        m1 == mem_write(s.memory, [a \in (I .. (I + 2)) \cap Addresses |->
                                     ds[a - I]])
    IN  IF I + 2 >= MEMORY_SIZE THEN Panic([s EXCEPT !.memory = m1])
        ELSE pc_inc([s EXCEPT !.memory = m1])

\* the match of exec_single on the decoded opcode d
exec_arm(s, d, wrap, rnd, last) ==
    CASE d.tag = "Clear" -> exec_Clear(s)
      [] d.tag = "Return" -> exec_Return(s)
      [] d.tag = "JumpTo" -> exec_JumpTo(s, d.n)
      [] d.tag = "Call" -> exec_Call(s, d.n)
      [] d.tag = "SkipEq" -> exec_SkipEq(s, d.x, d.n)
      [] d.tag = "SkipNotEq" -> exec_SkipNotEq(s, d.x, d.n)
      [] d.tag = "SkipEqXY" -> exec_SkipEqXY(s, d.x, d.y)
      [] d.tag = "SetX" -> exec_SetX(s, d.x, d.n)
      [] d.tag = "AddX" -> exec_AddX(s, d.x, d.n, wrap)
      [] d.tag = "AssignXY" -> exec_AssignXY(s, d.x, d.y)
      [] d.tag = "OrXY" -> exec_OrXY(s, d.x, d.y)
      [] d.tag = "AndXY" -> exec_AndXY(s, d.x, d.y)
      [] d.tag = "XorXY" -> exec_XorXY(s, d.x, d.y)
      [] d.tag = "AddXY" -> exec_AddXY(s, d.x, d.y, wrap)
      [] d.tag = "SubXY" -> exec_SubXY(s, d.x, d.y, wrap)
      [] d.tag = "ShiftRightX1" -> exec_ShiftRightX1(s, d.x)
      [] d.tag = "SubYX" -> exec_SubYX(s, d.x, d.y)
      [] d.tag = "ShiftLeftX1" -> exec_ShiftLeftX1(s, d.x)
      [] d.tag = "SkipNotEqXY" -> exec_SkipNotEqXY(s, d.x, d.y)
      [] d.tag = "SetIR" -> exec_SetIR(s, d.n)
      [] d.tag = "Flow" -> exec_Flow(s, d.n, wrap)
      [] d.tag = "RandX" -> exec_RandX(s, d.x, d.n, rnd)
      [] d.tag = "KeyPressedX" -> exec_KeyPressedX(s, d.x)
      [] d.tag = "KeyNotPressedX" -> exec_KeyNotPressedX(s, d.x)
      [] d.tag = "KeyPressX" -> exec_KeyPressX(s, d.x, last)
      [] d.tag = "TimerX" -> exec_TimerX(s, d.x)
      [] d.tag = "SetDelayTimer" -> exec_SetDelayTimer(s, d.x)
      [] d.tag = "SetSoundTimer" -> exec_SetSoundTimer(s, d.x)
      [] d.tag = "MemAdd" -> exec_MemAdd(s, d.x, wrap)
      [] d.tag = "SpriteX" -> exec_SpriteX(s, d.x, wrap)
      [] d.tag = "DumpX" -> exec_DumpX(s, d.x)
      [] d.tag = "LoadX" -> exec_LoadX(s, d.x)
      [] d.tag = "Draw" -> exec_Draw(s, d.x, d.y, d.n, wrap)
      [] d.tag = "BCD" -> exec_BCD(s, d.x)

\* mutant: an Invalid opcode is skipped like a no-op
exec_state_skips_invalid(s, wrap, rnd, last) ==
    IF fetch_panics(s) THEN [state |-> Panic(s), alive |-> TRUE]
    ELSE
    LET f == fetch_opcode(s)
        d == parse_opcode(f)
        s1 == [s EXCEPT !.opcode = IF f = None THEN @ ELSE unwrap(f),
                        !.draw_flag = FALSE]
    IN  IF d = Invalid THEN [state |-> pc_inc(s1), alive |-> FALSE]
        ELSE [state |-> exec_arm(s1, d, wrap, rnd, last), alive |-> TRUE]

\* exec_single up to its return: fetch, decode, clear draw_flag, run the arm;
\* the result carries the return value in alive
exec_state(s, wrap, rnd, last) ==
    IF fetch_panics(s) THEN [state |-> Panic(s), alive |-> TRUE]
    ELSE
    LET f == fetch_opcode(s)
        d == parse_opcode(f)
        s1 == [s EXCEPT !.opcode = IF f = None THEN @ ELSE unwrap(f),
                        !.draw_flag = FALSE]
    IN  IF d = Invalid THEN [state |-> s1, alive |-> FALSE]
        ELSE [state |-> exec_arm(s1, d, wrap, rnd, last), alive |-> TRUE]

\* ------------------------------------------------------------------ actions
SetMachine(s) ==
    /\ memory' = s.memory
    /\ registers' = s.registers
    /\ index_register' = s.index_register
    /\ pc' = s.pc
    /\ gfx' = s.gfx
    /\ delay_timer' = s.delay_timer
    /\ sound_timer' = s.sound_timer
    /\ stack' = s.stack
    /\ opcode' = s.opcode
    /\ program_size' = s.program_size
    /\ keys' = s.keys
    /\ draw_flag' = s.draw_flag
    /\ panicked' = s.panicked

\* let mut m = Machine::new(); f is the word the decoder is about to be given
InitWith(f) ==
    /\ memory = new.memory
    /\ registers = new.registers
    /\ index_register = new.index_register
    /\ pc = new.pc
    /\ gfx = new.gfx
    /\ delay_timer = new.delay_timer
    /\ sound_timer = new.sound_timer
    /\ stack = new.stack
    /\ opcode = new.opcode
    /\ program_size = new.program_size
    /\ keys = new.keys
    /\ draw_flag = new.draw_flag
    /\ panicked = FALSE
    /\ alive = TRUE
    /\ fetched = f
    /\ decoded = Invalid
    /\ last_op = "new"
    /\ program = << >>
    /\ hist = << >>

Init == InitWith(None)

\* m.init(): the reset
init ==
    /\ ~panicked
    /\ SetMachine(init_state)
    /\ alive' = TRUE
    /\ fetched' = None
    /\ decoded' = Invalid
    /\ last_op' = "init"
    /\ program' = << >>
    /\ hist' = << >>

\* m.load_program(p) for some p of the set P, called on a machine that was
\* just reset (main and both tests load right after init)
load_program(P) ==
    /\ ~panicked
    /\ last_op = "init"
    /\ \E p \in P :
          /\ SetMachine(load_program_state(self, p))
          /\ program' = p
    /\ last_op' = "load"
    /\ UNCHANGED << alive, fetched, decoded, hist >>

\* what hist records of one exec_single: the decoded opcode and the state the
\* call started from
HistEntry(d) ==
    [ d |-> d, pc |-> pc, registers |-> registers,
      index_register |-> index_register, stack |-> stack, gfx |-> gfx,
      delay_timer |-> delay_timer, sound_timer |-> sound_timer,
      memory |-> memory ]

\* the u16 values the model lets the random generator return
RandomValues == { 0, 255, 4660, U16_MAX }

\* one call of m.exec_single(); caller is the name last_op gets
exec_single_as(caller) ==
    /\ ~panicked
    /\ LET d == IF fetch_panics(self) THEN decoded
                ELSE parse_opcode(fetch_opcode(self))
       IN  /\ (~fetch_panics(self) /\ d.tag = "Call") => Len(stack) < StackCap
           /\ \E wrap \in BOOLEAN :
              \E rnd \in (IF d.tag = "RandX" THEN RandomValues ELSE { 0 }) :
              \E last \in (IF pressed_keys(self) = {} THEN { 0 }
                           ELSE pressed_keys(self)) :
                 LET r == exec_state(self, wrap, rnd, last)
                 IN  /\ SetMachine(r.state)
                     /\ alive' = IF r.state.panicked THEN alive ELSE r.alive
           /\ decoded' = d
           /\ fetched' = IF fetch_panics(self) THEN fetched ELSE fetch_opcode(self)
           /\ hist' = << HistEntry(d) >> \o SubSeq(hist, 1, IF Len(hist) > 0 THEN 1 ELSE 0)
           /\ last_op' = caller
           /\ UNCHANGED program

\* m.exec_single() called by a test on a loaded machine, any number of times
exec_single ==
    /\ last_op \in { "load", "exec" }
    /\ exec_single_as("exec")

\* ------------------------------------------------------- main: driver loop
\* the keycodes set_key_state maps to a key of the pad
KeyIndex ==
    [ Num0 |-> 0, Num1 |-> 1, Num2 |-> 2, Num3 |-> 3, Num4 |-> 4, Num5 |-> 5,
      Num6 |-> 6, Num7 |-> 7, Num8 |-> 8, Num9 |-> 9, A |-> 10, B |-> 11,
      C |-> 12, D |-> 13, E |-> 14, F |-> 15 ]

\* set_key_state: self.keys.insert(index, state) for a mapped keycode, nothing
\* for any other
set_key_state(s, k, state) ==
    IF k \in DOMAIN KeyIndex
    THEN [s EXCEPT !.keys = [x \in (DOMAIN s.keys) \cup { KeyIndex[k] } |->
                               IF x = KeyIndex[k] THEN state ELSE s.keys[x]]]
    ELSE s

\* mutant: the timer section decrements without looking at the value
timers_state_unchecked(s) ==
    [s EXCEPT !.delay_timer = Wrap16(@ - 1), !.sound_timer = Wrap16(@ - 1)]

\* the timer section of the loop
timers_state(s) ==
    [s EXCEPT !.delay_timer = IF @ > 0 THEN @ - 1 ELSE @,
              !.sound_timer = IF @ > 0 THEN @ - 1 ELSE @]

\* the keycodes the model sends: two mapped keys and one that is not
Keycodes == { "Num1", "Num2", "Space" }

\* the loop is at its top: the program was loaded or the timer section ran,
\* possibly followed by events of this iteration
AtLoopTop == last_op \in { "load", "main_events", "main_timers" }

\* one KeyDown or KeyUp event of event_pump.poll_iter()
main_events ==
    /\ ~panicked
    /\ alive
    /\ AtLoopTop
    /\ \E k \in Keycodes : \E state \in { 0, 1 } :
          SetMachine(set_key_state(self, k, state))
    /\ last_op' = "main_events"
    /\ UNCHANGED << alive, fetched, decoded, program, hist >>

\* Event::Quit or KeyDown of Escape: break 'running, main returns
main_quit ==
    /\ ~panicked
    /\ alive
    /\ AtLoopTop
    /\ last_op' = "main_exit"
    /\ UNCHANGED << machine, panicked, alive, fetched, decoded, program, hist >>

\* let alive = m.exec_single(); the loop is left when it returned false, so
\* nothing of main follows a step with alive = FALSE
main_exec ==
    /\ alive
    /\ AtLoopTop
    /\ exec_single_as("main_exec")

\* mutant: the loop goes on to its timer section after a step returned false
main_timers_without_break ==
    /\ ~panicked
    /\ last_op = "main_exec"
    /\ SetMachine(timers_state(self))
    /\ last_op' = "main_timers"
    /\ UNCHANGED << alive, fetched, decoded, program, hist >>

\* the rest of the iteration after a step that returned true: render (which
\* changes nothing of the machine) and the timer section
main_timers ==
    /\ ~panicked
    /\ alive
    /\ last_op = "main_exec"
    /\ SetMachine(timers_state(self))
    /\ last_op' = "main_timers"
    /\ UNCHANGED << alive, fetched, decoded, program, hist >>

\* ---------------------------------------------------------------- programs
\* the bytes of a sequence of 16-bit words, high byte first
words_to_bytes(ws) ==
    [i \in 1 .. (2 * Len(ws)) |->
        IF i % 2 = 1 THEN ws[(i + 1) \div 2] \div 256 ELSE ws[i \div 2] % 256]

\* every program of 1 .. maxlen words over the set W
ProgramsOver(W, maxlen) ==
    { words_to_bytes(ws) : ws \in UNION { [1 .. n -> W] : n \in 1 .. maxlen } }

\* 6005 SetX(0,5); D005 Draw(0,0,5); 00EE Return; 2200, 2202, 2204 Call;
\* 1204 JumpTo (past a one-word program); 5011 not an instruction
ControlWords == { 24581, 53253, 238, 8704, 8706, 8708, 4612, 20497 }

ControlPrograms == ProgramsOver(ControlWords, MaxProgWords)

Next ==
    \/ init
    \/ load_program(ControlPrograms)
    \/ exec_single

Spec == Init /\ [][Next]_vars

\* programs for load_program: p[i] = (base + i) mod 256, so the first word is
\* base * 256 + base + 1, of every length near 0 and near the room above 0x200
FillProgram(len, base) == [i \in 1 .. len |-> (base + i - 1) % 256]

LoadLengths ==
    (0 .. LoadSpan)
    \cup ((MEMORY_SIZE - PROGRAM_START_ADDRESS - LoadSpan) ..
          (MEMORY_SIZE - PROGRAM_START_ADDRESS + LoadSpan))

\* first words 0001, 5051 (not instructions), 6061 SetX, A2A3 SetIR,
\* 00E0 Clear, D0D1 Draw, F0F1 (not an instruction), 3031 SkipEq
LoadBases == { 0, 80, 96, 162, 208, 240, 48 }

LoadPrograms ==
    { FillProgram(len, base) : len \in LoadLengths, base \in LoadBases }
    \cup { << 0, 224 >> }

NextLoad ==
    \/ init
    \/ load_program(LoadPrograms)
    \/ exec_single

SpecLoad == Init /\ [][NextLoad]_vars

\* instruction words
SetXWord(x, nn) == 24576 + 256 * x + nn
TimerXWord(x) == 61447 + 256 * x
SetIRWord(nnn) == 40960 + nnn
DrawWord(x, y, n) == 53248 + 256 * x + 16 * y + n
AluWord(x, y, selector) == 32768 + 256 * x + 16 * y + selector

\* programs for the 8XY_ instructions: two registers are set (one of them
\* possibly from the delay timer, which holds a 16-bit value) and combined
AluRegisters == { 0, 1, 15 }
AluValues == (0 .. AluSpan) \cup ((255 - AluSpan) .. 255) \cup { 5, 10, 127, 128 }
AluSelectors == { 4, 5, 6, 7, 14 }

AluPrograms ==
    { words_to_bytes(<< SetXWord(x, a), SetXWord(y, b), AluWord(x, y, sel) >>) :
        x \in AluRegisters, y \in AluRegisters, a \in AluValues,
        b \in AluValues, sel \in AluSelectors }
    \cup
    { words_to_bytes(<< SetXWord(x, a), TimerXWord(y), AluWord(x, y, sel) >>) :
        x \in AluRegisters, y \in AluRegisters, a \in { 0, 255 },
        sel \in AluSelectors }

NextAlu ==
    \/ init
    \/ load_program(AluPrograms)
    \/ exec_single

SpecAlu == Init /\ [][NextAlu]_vars

\* programs that draw the same sprite three times: at a column that wraps or
\* not, from the font, from the program's own bytes, from zero bytes and from
\* the last bytes of memory, through V0 or through VF as the x register
DrawPrograms ==
    { words_to_bytes(<< SetXWord(0, a), SetXWord(1, b), SetIRWord(i),
                        DrawWord(rx, 1, n), DrawWord(rx, 1, n),
                        DrawWord(rx, 1, n) >>) :
        a \in { 0, 60, 63 }, b \in { 0, 30 }, i \in { 0, 100, 512, 4090 },
        n \in { 0, 1, 5, 15 }, rx \in { 0, 15 } }

NextDraw ==
    \/ init
    \/ load_program(DrawPrograms)
    \/ exec_single

SpecDraw == Init /\ [][NextDraw]_vars

\* more instruction words
JumpToWord(nnn) == 4096 + nnn
SetDelayTimerWord(x) == 61461 + 256 * x
SetSoundTimerWord(x) == 61464 + 256 * x
KeyPressedXWord(x) == 57502 + 256 * x
KeyNotPressedXWord(x) == 57505 + 256 * x
KeyPressXWord(x) == 61450 + 256 * x

\* programs for the driver loop: both timers are set from V0, V1 is set to a
\* key number, one key instruction on V1 or V2 follows (EX9E, EXA1, FX0A) and
\* then a jump to itself; a skip lands behind the program
TimerValues == 0 .. TimerSpan
KeyValues == { 1, 2, 3 }

KeyWords ==
    { KeyPressedXWord(1), KeyNotPressedXWord(1), KeyPressXWord(1),
      KeyPressXWord(2) }

MainPrograms ==
    { words_to_bytes(<< SetXWord(0, t), SetDelayTimerWord(0),
                        SetSoundTimerWord(0), SetXWord(1, k), w,
                        JumpToWord(PROGRAM_START_ADDRESS + 10) >>) :
        t \in TimerValues, k \in KeyValues, w \in KeyWords }
    \cup
    \* the delay timer is read into V2 before the program sets it
    { words_to_bytes(<< TimerXWord(2), SetXWord(0, t), SetDelayTimerWord(0),
                        SetSoundTimerWord(0) >>) : t \in TimerValues }

NextMain ==
    \/ init
    \/ load_program(MainPrograms)
    \/ exec_single
    \/ main_events
    \/ main_quit
    \/ main_exec
    \/ main_timers

SpecMain == Init /\ [][NextMain]_vars

\* straight-line programs: 7005 AddX(0,5), 7102 AddX(1,2), 8014 AddXY(0,1),
\* F007 TimerX(0), 7001 AddX(0,1); none of them sets pc or skips
LineWords == { 28677, 28930, 32788, 61447, 28673 }

LinePrograms == ProgramsOver(LineWords, MaxProgWords)

NextLine ==
    \/ init
    \/ load_program(LinePrograms)
    \/ exec_single

SpecLine == Init /\ [][NextLine]_vars

\* programs for the skip instructions: two registers are set, then one of
\* 3XNN, 4XNN, 5XY0, 9XY0 compares them (or the first with a constant)
SkipEqWord(x, nn) == 12288 + 256 * x + nn
SkipNotEqWord(x, nn) == 16384 + 256 * x + nn
SkipEqXYWord(x, y) == 20480 + 256 * x + 16 * y
SkipNotEqXYWord(x, y) == 36864 + 256 * x + 16 * y

SkipValues == { 0, 1, 255 }

SkipPrograms ==
    { words_to_bytes(<< SetXWord(x, a), SetXWord(y, b), w >>) :
        x \in AluRegisters, y \in AluRegisters, a \in SkipValues,
        b \in SkipValues,
        w \in { SkipEqWord(r, nn) : r \in AluRegisters, nn \in SkipValues }
              \cup { SkipNotEqWord(r, nn) : r \in AluRegisters, nn \in SkipValues }
              \cup { SkipEqXYWord(0, 1), SkipEqXYWord(1, 15), SkipEqXYWord(1, 1),
                     SkipNotEqXYWord(0, 1), SkipNotEqXYWord(1, 15),
                     SkipNotEqXYWord(1, 1) } }

NextSkip ==
    \/ init
    \/ load_program(SkipPrograms)
    \/ exec_single

SpecSkip == Init /\ [][NextSkip]_vars

\* programs for the instructions that use memory[I + i]: V0 is set (or read
\* from the delay timer), V1 is set, I is set, then FX55 and FX65 with the
\* same X, or FX33 and FX65, or DXYN and FX65
DumpXWord(x) == 61525 + 256 * x
LoadXWord(x) == 61541 + 256 * x
BCDWord(x) == 61491 + 256 * x

MemAddresses ==
    { 0, 768 } \cup ((MEMORY_SIZE - 1 - MemSpan) .. (MEMORY_SIZE - 1))

\* a program that fills memory up to the last byte and starts with 1FFF, a
\* jump to the last address
JumpToEndProgram ==
    [i \in 1 .. (MEMORY_SIZE - PROGRAM_START_ADDRESS) |->
        IF i = 1 THEN JumpToWord(MEMORY_SIZE - 1) \div 256
        ELSE IF i = 2 THEN JumpToWord(MEMORY_SIZE - 1) % 256
        ELSE 0]

MemPrograms ==
    { words_to_bytes(<< w0, SetXWord(1, b), SetIRWord(i), ws[1], ws[2] >>) :
        w0 \in { SetXWord(0, 0), SetXWord(0, 7), SetXWord(0, 255), TimerXWord(0) },
        b \in { 0, 255 }, i \in MemAddresses,
        ws \in { << DumpXWord(x), LoadXWord(x) >> : x \in { 0, 1, 15 } }
               \cup { << BCDWord(0), LoadXWord(2) >>,
                      << DrawWord(0, 1, 2), LoadXWord(0) >>,
                      << DrawWord(0, 1, 1), LoadXWord(1) >> } }
    \cup { JumpToEndProgram }

NextMem ==
    \/ init
    \/ load_program(MemPrograms)
    \/ exec_single

SpecMem == Init /\ [][NextMem]_vars

\* parse_opcode(op) on its own: any Option<u16> goes in, an OpCode comes out
parse ==
    /\ last_op = "new"
    /\ decoded' = parse_opcode(fetched)
    /\ last_op' = "parse"
    /\ UNCHANGED << machine, panicked, alive, fetched, program, hist >>

InitDecode == \E f \in { None } \cup { Some(w) : w \in 0 .. U16_MAX } : InitWith(f)

SpecDecode == InitDecode /\ [][parse]_vars

\* ------------------------------------------------------------------- claims
\* the last operation was an exec_single that returned (did not panic)
Stepped == last_op = "exec" /\ ~panicked

\* C1: a step whose fetched word decodes to Invalid returns false (halt) and
\* leaves the registers, the index register, pc, the stack, memory and the
\* display as they were.
C1_InvalidHaltsUnchanged ==
    [][ (last_op' = "exec" /\ decoded' = Invalid /\ ~fetch_panics(self))
        => /\ ~panicked'
           /\ alive' = FALSE
           /\ registers' = registers
           /\ index_register' = index_register
           /\ pc' = pc
           /\ stack' = stack
           /\ memory' = memory
           /\ gfx' = gfx ]_vars

\* C1 witness: 0x5011 was fetched with a pixel lit and a return address on
\* the stack, and the step reported halt
C1_Witness ==
    /\ Stepped
    /\ fetched = Some(20497)
    /\ decoded = Invalid
    /\ alive = FALSE
    /\ stack # << >>
    /\ \E p \in Pixels : pixel(gfx, p) = 1

\* C2: Call(T) at pc = A followed at once by Return leaves pc = A + 2 and the
\* stack as deep as before the Call.
C2_CallReturn ==
    (/\ last_op = "exec"
     /\ Len(hist) = 2
     /\ hist[2].d.tag = "Call"
     /\ hist[1].d.tag = "Return")
    => /\ ~panicked
       /\ pc = hist[2].pc + 2
       /\ Len(stack) = Len(hist[2].stack)

\* C2 witness: a Call at 0x204 to the lower address 0x202 was followed by
\* the Return there
C2_Witness ==
    /\ Stepped
    /\ Len(hist) = 2
    /\ hist[2].d = Op("Call", 0, 0, 514)
    /\ hist[2].pc = 516
    /\ hist[1].d.tag = "Return"
    /\ hist[1].pc = 514

\* C3: Return on an empty stack makes the step report halt; the process is not
\* aborted and the machine can be reset afterwards.
C3_ReturnOnEmptyHalts ==
    (/\ last_op = "exec"
     /\ decoded.tag = "Return"
     /\ hist[1].stack = << >>)
    => /\ ~panicked
       /\ alive = FALSE
       /\ ENABLED init

\* C4: the stack never holds more than 16 return addresses.
C4_StackBounded == Len(stack) <= 16

\* C5: after init, pc = 0x200, registers and index register are 0, the stack
\* and the display are empty, both timers are 0, no key is pressed, memory
\* [0, 80) is the font table and every other byte is 0.
C5_ResetState ==
    last_op = "init"
    => /\ pc = 512
       /\ \A r \in RegisterIds : registers[r] = 0
       /\ index_register = 0
       /\ stack = << >>
       /\ \A p \in Pixels : pixel(gfx, p) = 0
       /\ delay_timer = 0
       /\ sound_timer = 0
       /\ \A k \in DOMAIN keys : keys[k] = 0
       /\ \A a \in Addresses :
            mem_read(memory, a) = IF a < 80 THEN codes[(a \div 5) + 1][(a % 5) + 1] ELSE 0


\* C6: after reset and load_program(bytes) with len(bytes) <= 4096 - 0x200,
\* memory[0x200 + i] = bytes[i], every byte outside the loaded range is what it
\* was before the load, and the fetch at pc = 0x200 returns
\* bytes[0] * 256 + bytes[1].
C6_LoadRoundTrip ==
    [][ (last_op' = "load" /\ Len(program') <= 4096 - 512)
        => /\ ~panicked'
           /\ \A i \in 1 .. Len(program') :
                mem_read(memory', 512 + i - 1) = program'[i]
           /\ \A a \in Addresses :
                (a < 512 \/ a >= 512 + Len(program'))
                => mem_read(memory', a) = mem_read(memory, a)
           /\ pc' = 512
           /\ Len(program') >= 2
              => fetch_opcode([ memory |-> memory', pc |-> pc',
                                program_size |-> program_size' ])
                 = Some(program'[1] * 256 + program'[2]) ]_vars

\* C6 witness: a program that fills memory up to the last byte was loaded
C6_Witness ==
    /\ last_op = "load"
    /\ ~panicked
    /\ Len(program) = 4096 - 512
    /\ program[1] = 162 /\ program[2] = 163
    /\ mem_read(memory, 4095) = program[4096 - 512]

\* C7: load_program of more than 4096 - 0x200 bytes fails with an error value
\* and does not abort the process.
C7_OversizeLoadReturns ==
    (last_op = "load" /\ Len(program) > 4096 - 512)
    => /\ ~panicked
       /\ DOMAIN memory \subseteq Addresses

\* C8: parse_opcode maps every Option<u16> to one well-formed OpCode; 00E0 is
\* Clear, 00EE is Return, 1NNN is JumpTo(NNN), 6XNN is SetX(X, NN) and DXYN is
\* Draw(X, Y, N), with X = bits 8..11, Y = bits 4..7, N = bits 0..3,
\* NN = bits 0..7, NNN = bits 0..11.
OpCodeTags ==
    { "Clear", "Return", "JumpTo", "Call", "SkipEq", "SkipNotEq", "SkipEqXY",
      "SetX", "AddX", "AssignXY", "OrXY", "AndXY", "XorXY", "AddXY", "SubXY",
      "ShiftRightX1", "SubYX", "ShiftLeftX1", "SkipNotEqXY", "SetIR", "Flow",
      "RandX", "Draw", "KeyPressedX", "KeyNotPressedX", "TimerX", "KeyPressX",
      "SetDelayTimer", "SetSoundTimer", "MemAdd", "SpriteX", "BCD", "DumpX",
      "LoadX", "Invalid" }

C8_DecoderTotal ==
    last_op = "parse"
    => /\ decoded.tag \in OpCodeTags
       /\ decoded.x \in 0 .. 15 /\ decoded.y \in 0 .. 15 /\ decoded.n \in 0 .. 4095
       /\ fetched = None => decoded = Invalid
       /\ fetched # None =>
            LET w == unwrap(fetched)
            IN  /\ w = 224 => decoded = Op("Clear", 0, 0, 0)
                /\ w = 238 => decoded = Op("Return", 0, 0, 0)
                /\ w \div 4096 = 1 => decoded = Op("JumpTo", 0, 0, w % 4096)
                /\ w \div 4096 = 6
                   => decoded = Op("SetX", (w \div 256) % 16, 0, w % 256)
                /\ w \div 4096 = 13
                   => decoded = Op("Draw", (w \div 256) % 16, (w \div 16) % 16,
                                   w % 16)

\* C8 witness: D014 was decoded to Draw(0, 1, 4)
C8_Witness ==
    /\ last_op = "parse"
    /\ fetched = Some(53268)
    /\ decoded = Op("Draw", 0, 1, 4)


\* what 8XY5 should compute from 8-bit operands
SubWrapped(vx, vy) == IF vx >= vy THEN vx - vy ELSE (256 + vx - vy) % 256
NoBorrow(vx, vy) == IF vx >= vy THEN 1 ELSE 0

\* the last step was a SubXY that started with 8-bit values in Vx and Vy
SubXYStepped ==
    /\ last_op = "exec"
    /\ decoded.tag = "SubXY"
    /\ hist[1].registers[decoded.x] <= 255
    /\ hist[1].registers[decoded.y] <= 255

\* C9 as stated: after SubXY on 8-bit operands Vx holds the wrapped difference
\* and VF the no-borrow flag, for every X.
C9_SubXY_AsStated ==
    SubXYStepped
    => LET vx == hist[1].registers[decoded.x]
           vy == hist[1].registers[decoded.y]
       IN  /\ ~panicked
           /\ registers[decoded.x] = SubWrapped(vx, vy)
           /\ registers[15] = NoBorrow(vx, vy)

\* C9 amended: after SubXY on 8-bit operands VF holds the no-borrow flag and,
\* when X is not F, Vx holds the wrapped difference (with X = F the flag
\* overwrites the difference).
C9_SubXY ==
    SubXYStepped
    => LET vx == hist[1].registers[decoded.x]
           vy == hist[1].registers[decoded.y]
       IN  /\ ~panicked
           /\ decoded.x # 15 => registers[decoded.x] = SubWrapped(vx, vy)
           /\ registers[15] = NoBorrow(vx, vy)

\* C9 witness: V0 = 5, V1 = 10, 8015 left V0 = 251 and VF = 0
C9_Witness ==
    /\ SubXYStepped
    /\ ~panicked
    /\ decoded.x = 0 /\ decoded.y = 1
    /\ hist[1].registers[0] = 5 /\ hist[1].registers[1] = 10
    /\ registers[0] = 251
    /\ registers[15] = 0

\* the last two steps were the same Draw instruction, both returned, and the
\* second started with the coordinates and the index register of the first
DrewTwice ==
    /\ last_op = "exec"
    /\ ~panicked
    /\ Len(hist) = 2
    /\ hist[1].d.tag = "Draw"
    /\ hist[2].d = hist[1].d
    /\ hist[2].registers[decoded.x] = hist[1].registers[decoded.x]
    /\ hist[2].registers[decoded.y] = hist[1].registers[decoded.y]
    /\ hist[2].index_register = hist[1].index_register

\* some sprite bit that is 1 lands on a pixel that is 0 in the display g
SpriteHitsClearPixel(g) ==
    \E h \in 0 .. (decoded.n - 1) : \E col \in 0 .. 7 :
        LET byte == mem_read(memory, hist[1].index_register + h)
            px == (hist[1].registers[decoded.x] + col) % 64
            py == (hist[1].registers[decoded.y] + h) % 32
        IN  /\ (byte \div (2 ^ (7 - col))) % 2 = 1
            /\ pixel(g, py * 64 + px) = 0

C11_TimerTick ==
    [][ last_op' = "main_timers"
        => /\ delay_timer' = IF delay_timer > 0 THEN delay_timer - 1 ELSE 0
           /\ sound_timer' = IF sound_timer > 0 THEN sound_timer - 1 ELSE 0
           /\ delay_timer' \in 0 .. U16_MAX
           /\ sound_timer' \in 0 .. U16_MAX
           /\ UNCHANGED << memory, registers, index_register, pc, gfx, stack,
                           opcode, program_size, keys, draw_flag, panicked >> ]_vars

\* C11 witness: the delay timer was set to 5, the tick before the last one
\* took it from 1 to 0 and the last one left it at 0
C11_Witness ==
    /\ last_op = "main_timers"
    /\ program[2] = 5
    /\ Len(hist) = 2
    /\ hist[2].delay_timer = 1
    /\ hist[1].delay_timer = 0
    /\ delay_timer = 0
    /\ sound_timer = 0

\* the word of the loaded program at address a
ProgramWord(a) ==
    program[a - PROGRAM_START_ADDRESS + 1] * 256 + program[a - PROGRAM_START_ADDRESS + 2]

\* C12: a loaded program of k instructions that neither set pc nor skip runs
\* for exactly k steps, in program order, and step k + 1 reports halt with
\* pc = 0x200 + 2k; 7005 7102 8014 ends with V0 = 7 and VF = 0.
C12_StraightLineHalts ==
    (last_op = "exec" /\ program \in LinePrograms)
    => LET k == Len(program) \div 2
           end == PROGRAM_START_ADDRESS + 2 * k
       IN  /\ ~panicked
           /\ alive => /\ hist[1].pc < end
                       /\ decoded = parse_opcode(Some(ProgramWord(hist[1].pc)))
                       /\ pc = hist[1].pc + 2
           /\ ~alive => /\ hist[1].pc = end
                        /\ pc = end
                        /\ program = << 112, 5, 113, 2, 128, 20 >>
                           => (registers[0] = 7 /\ registers[15] = 0)

\* C13: once a step has returned false, main executes no further instruction
\* and no further timer section, and a further exec_single without a reset
\* returns false again and leaves registers, memory, stack, display and pc
\* unchanged.
C13_HaltTerminal ==
    [][ ~alive
        => /\ last_op' \notin { "main_events", "main_exec", "main_timers", "main_exit" }
           /\ last_op' = "exec"
              => /\ ~panicked'
                 /\ alive' = FALSE
                 /\ UNCHANGED << registers, memory, stack, gfx, pc,
                                 index_register, delay_timer, sound_timer >> ]_vars

\* C13 witness: a step of the driver loop returned false while a timer was
\* still running and a key was held down
C13_Witness ==
    /\ last_op = "main_exec"
    /\ ~panicked
    /\ ~alive
    /\ delay_timer > 0
    /\ pressed_keys(self) # {}

\* the condition of the skip instruction d on the registers regs
SkipCondition(d, regs) ==
    CASE d.tag = "SkipEq" -> regs[d.x] = d.n
      [] d.tag = "SkipNotEq" -> regs[d.x] # d.n
      [] d.tag = "SkipEqXY" -> regs[d.x] = regs[d.y]
      [] d.tag = "SkipNotEqXY" -> regs[d.x] # regs[d.y]

\* C14: after 3XNN, 4XNN, 5XY0 or 9XY0 pc is the old pc + 4 when the condition
\* holds and the old pc + 2 when it does not, and no register has changed.
C14_Skips ==
    (last_op = "exec"
     /\ decoded.tag \in { "SkipEq", "SkipNotEq", "SkipEqXY", "SkipNotEqXY" })
    => /\ ~panicked
       /\ alive
       /\ pc = hist[1].pc + (IF SkipCondition(decoded, hist[1].registers)
                             THEN 4 ELSE 2)
       /\ registers = hist[1].registers

\* the last operation was an exec_single, called by a test or by main
Executed == last_op \in { "exec", "main_exec" }

\* the key numbered k is down in the map ks (a key never inserted is not)
KeyDown(ks, k) == k \in DOMAIN ks /\ ks[k] > 0

\* the last step fetched the word EX.. with the low byte lo
FetchedKeyWord(lo) ==
    /\ Executed
    /\ fetched # None
    /\ unwrap(fetched) \div 4096 = 14
    /\ unwrap(fetched) % 256 = lo

\* C15: a step that fetched EX9E adds 4 to pc when key Vx is pressed and 2
\* otherwise; a step that fetched EXA1 adds 4 when key Vx is not pressed and 2
\* otherwise; neither halts nor changes a register.
C15_KeySkips ==
    LET X == (unwrap(fetched) \div 256) % 16
        down == KeyDown(keys, hist[1].registers[X])
    IN  /\ FetchedKeyWord(158)
           => /\ ~panicked /\ alive
              /\ pc = hist[1].pc + (IF down THEN 4 ELSE 2)
              /\ registers = hist[1].registers
        /\ FetchedKeyWord(161)
           => /\ ~panicked /\ alive
              /\ pc = hist[1].pc + (IF down THEN 2 ELSE 4)
              /\ registers = hist[1].registers

\* C16: a step that executes FX0A while no key is pressed returns true and
\* leaves pc, the registers, the index register, the stack, memory and the
\* display unchanged; the step after it executes the same instruction again.
C16_KeyWaitSpin ==
    [][ /\ (last_op' \in { "exec", "main_exec" }
            /\ decoded'.tag = "KeyPressX"
            /\ pressed_keys(self) = {})
           => /\ ~panicked'
              /\ alive'
              /\ UNCHANGED << pc, registers, index_register, stack, memory, gfx >>
        /\ (Len(hist) > 0 /\ decoded.tag = "KeyPressX" /\ pc = hist[1].pc
            /\ last_op' \in { "exec", "main_exec" })
           => /\ decoded' = decoded
              /\ hist'[1].pc = pc ]_vars

\* C16 witness: the driver loop executed FX0A twice at the same pc, with a
\* key that was pressed and released before
C16_Witness ==
    /\ last_op = "main_exec"
    /\ ~panicked
    /\ alive
    /\ Len(hist) = 2
    /\ hist[1].d.tag = "KeyPressX"
    /\ hist[2].d = hist[1].d
    /\ hist[2].pc = pc
    /\ hist[1].pc = pc
    /\ 1 \in DOMAIN keys
    /\ pressed_keys(self) = {}

\* C17: a step that executes FX0A while one or more keys are pressed stores
\* the index of a pressed key in Vx and adds exactly 2 to pc.
C17_KeyWaitCompletes ==
    (Executed /\ decoded.tag = "KeyPressX" /\ pressed_keys(self) # {})
    => /\ ~panicked
       /\ alive
       /\ registers[decoded.x] \in pressed_keys(self)
       /\ pc = hist[1].pc + 2

\* the last step was the 8XY_ instruction tag and started with 8-bit values in
\* Vx and Vy
AluStepped(tag) ==
    /\ last_op = "exec"
    /\ decoded.tag = tag
    /\ hist[1].registers[decoded.x] <= 255
    /\ hist[1].registers[decoded.y] <= 255

\* C18: after AddXY on 8-bit operands with X not F, Vx is (Vx + Vy) mod 256,
\* VF is 1 when Vx + Vy > 255 and 0 otherwise, pc has advanced by 2 and no
\* other register has changed.
C18_AddXY ==
    (AluStepped("AddXY") /\ decoded.x # 15)
    => LET sum == hist[1].registers[decoded.x] + hist[1].registers[decoded.y]
       IN  /\ ~panicked
           /\ registers[decoded.x] = sum % 256
           /\ registers[15] = IF sum > 255 THEN 1 ELSE 0
           /\ pc = hist[1].pc + 2
           /\ \A r \in RegisterIds \ { decoded.x, 15 } :
                registers[r] = hist[1].registers[r]

\* C18 witness: V0 = 255, V1 = 2, 8014 left V0 = 1 and VF = 1
C18_Witness ==
    /\ AluStepped("AddXY")
    /\ ~panicked
    /\ decoded.x = 0 /\ decoded.y = 1
    /\ hist[1].registers[0] = 255 /\ hist[1].registers[1] = 2
    /\ registers[0] = 1
    /\ registers[15] = 1
    /\ registers[1] = 2

\* C19: SubYX on 8-bit operands leaves Vx = Vy - Vx and VF = 1 when Vy >= Vx,
\* and Vx = (256 + Vy - Vx) mod 256 and VF = 0 when Vy < Vx.
C19_SubYX ==
    AluStepped("SubYX")
    => LET vx == hist[1].registers[decoded.x]
           vy == hist[1].registers[decoded.y]
       IN  /\ ~panicked
           /\ decoded.x # 15 => registers[decoded.x] = SubWrapped(vy, vx)
           /\ registers[15] = NoBorrow(vy, vx)

\* the last step was the shift instruction tag and started with an 8-bit
\* value in Vx, X not F
ShiftStepped(tag) ==
    /\ last_op = "exec"
    /\ decoded.tag = tag
    /\ decoded.x # 15
    /\ hist[1].registers[decoded.x] <= 255

\* C20: with X not F, ShiftLeftX1 leaves VF = the former bit 7 of Vx (0 or 1)
\* and Vx = (old Vx * 2) mod 256; ShiftRightX1 leaves VF = the former bit 0 of
\* Vx and Vx = old Vx div 2.
C20_Shifts ==
    LET v == hist[1].registers[decoded.x]
    IN  /\ ShiftStepped("ShiftLeftX1")
           => /\ ~panicked
              /\ registers[15] = (v \div 128) % 2
              /\ registers[decoded.x] = (v * 2) % 256
        /\ ShiftStepped("ShiftRightX1")
           => /\ ~panicked
              /\ registers[15] = v % 2
              /\ registers[decoded.x] = v \div 2

\* the last step was a Draw that returned
DrawStepped == last_op = "exec" /\ ~panicked /\ decoded.tag = "Draw"

\* the pixels the last Draw was to flip: position (Vx + col) mod 64,
\* (Vy + row) mod 32 for each row < N and col < 8 where bit 7 - col of
\* memory[I + row] is 1
SpritePixels ==
    { ((hist[1].registers[decoded.y] + row) % 32) * 64
        + ((hist[1].registers[decoded.x] + col) % 64) :
      << row, col >> \in
        { rc \in (0 .. (decoded.n - 1)) \X (0 .. 7) :
            (mem_read(memory, hist[1].index_register + rc[1])
               \div (2 ^ (7 - rc[2]))) % 2 = 1 } }

DumpedThenLoaded ==
    /\ last_op = "exec"
    /\ Len(hist) = 2
    /\ hist[2].d.tag = "DumpX"
    /\ hist[1].d.tag = "LoadX"
    /\ hist[1].d.x = hist[2].d.x
    /\ hist[1].index_register = hist[2].index_register

\* C22: DumpX followed by LoadX with the same X and I leaves V0..Vx as they
\* were before the dump, writes exactly memory[I .. I + X], and leaves I as it
\* was.
C22_DumpLoad ==
    DumpedThenLoaded
    => LET X == decoded.x
           I == hist[2].index_register
       IN  /\ ~panicked
           /\ \A r \in 0 .. X : registers[r] = hist[2].registers[r]
           /\ index_register = I
           /\ \A r \in 0 .. X : mem_read(memory, I + r) = hist[2].registers[r]
           /\ \A a \in ((DOMAIN memory) \cup (DOMAIN hist[2].memory)) \ (I .. (I + X)) :
                mem_read(memory, a) = mem_read(hist[2].memory, a)

\* the indices of self.memory the last exec_single used: pc and pc + 1 in
\* fetch_opcode, then those of the arm that ran
FetchAccesses ==
    IF hist[1].pc > PROGRAM_START_ADDRESS + program_size THEN {}
    ELSE { hist[1].pc, hist[1].pc + 1 }

ArmAccesses ==
    LET I == hist[1].index_register
    IN  CASE decoded.tag = "Draw" -> { I + row : row \in 0 .. (decoded.n - 1) }
          [] decoded.tag = "BCD" -> I .. (I + 2)
          [] decoded.tag \in { "DumpX", "LoadX" } -> I .. (I + decoded.x)
          [] OTHER -> {}

MemoryAccesses ==
    IF FetchAccesses \subseteq Addresses
    THEN FetchAccesses \cup ArmAccesses
    ELSE FetchAccesses

\* C23: with a program of at most 4096 - 0x200 bytes loaded, every step uses
\* only memory indices in 0..4095 (fetch at pc and pc + 1, sprite rows in
\* Draw, the three digits of BCD, the registers of DumpX and LoadX).
C23_MemoryInBounds ==
    (Executed /\ Len(program) <= 4096 - 512)
    => MemoryAccesses \subseteq Addresses

\* C24: in every state reached from reset and load by steps, timer ticks and
\* key events, each of the registers V0..VF holds a value in 0..255.
C24_Registers8Bit == \A r \in RegisterIds : registers[r] \in 0 .. 255

====
